---------------------------- MODULE Spec2Model ----------------------------
(***************************************************************************)
(* Model of src/Stock_Analysis.py: three analysis views (sector           *)
(* performance, revenue growth, monthly company prices) opened from a     *)
(* launcher window over three shared in-memory tables.                     *)
(*                                                                         *)
(* A text is a sequence of one-character strings.  A table is a sequence   *)
(* of records (row order is the order of the CSV file).  A missing value   *)
(* (NaN) of a numeric column is the empty sequence, a present value v is   *)
(* <<v>>.  The stock and index tables carry the dtype of their Date        *)
(* column: "object" (text "YYYY-MM-DD" cells, as read from the CSV file)   *)
(* or "datetime64" (cells [year, month, day]).  The Open and Longname      *)
(* columns are never read by any computation and are left out.             *)
(***************************************************************************)
EXTENDS Integers, Sequences, FiniteSets, TLC

VARIABLES
    stocks_df,                  \* shared stock table       (line 654)
    companies_df,               \* shared company table     (line 655)
    index_df,                   \* shared index table       (line 656)
    loaded,                     \* history: the three tables as read at start
    sector_performance_window,  \* MainWindow.sector_performance_window or NoWindow
    revenue_growth_window,      \* MainWindow.revenue_growth_window or NoWindow
    monthly_analysis_window,    \* MainWindow.monthly_analysis_window or NoWindow
    result,                     \* what the last handler or call did
    app                         \* "running", or "crashed" after an unhandled exception

vars == <<stocks_df, companies_df, index_df, loaded, sector_performance_window,
          revenue_growth_window, monthly_analysis_window, result, app>>

tables == <<stocks_df, companies_df, index_df>>
windows == <<sector_performance_window, revenue_growth_window, monthly_analysis_window>>

-----------------------------------------------------------------------------
(* Bounds of the model *)

MaxYearLen == 4
MaxStockRows == 2
MaxCompanyRows == 2

-----------------------------------------------------------------------------
(* Generic helpers *)

SeqUpTo(S, n) == UNION {[1..k -> S] : k \in 0..n}

Range(s) == {s[i] : i \in DOMAIN s}

RECURSIVE SelectRows(_, _)
\* df[mask]: the rows whose index is in keep, in table order
SelectRows(df, keep) ==
    IF df = <<>> THEN <<>>
    ELSE LET n == Len(df)
             rest == SelectRows(SubSeq(df, 1, n - 1), keep)
         IN  IF n \in keep THEN Append(rest, df[n]) ELSE rest

-----------------------------------------------------------------------------
(* Python int(str) on a text, as used by validate_years *)

Digits == {"0", "1", "2", "3", "4", "5", "6", "7", "8", "9"}

DigitValue ==
    ("0" :> 0) @@ ("1" :> 1) @@ ("2" :> 2) @@ ("3" :> 3) @@ ("4" :> 4) @@
    ("5" :> 5) @@ ("6" :> 6) @@ ("7" :> 7) @@ ("8" :> 8) @@ ("9" :> 9)

RECURSIVE lstrip(_)
lstrip(s) == IF s # <<>> /\ Head(s) = " " THEN lstrip(Tail(s)) ELSE s

RECURSIVE rstrip(_)
rstrip(s) ==
    IF s # <<>> /\ s[Len(s)] = " " THEN rstrip(SubSeq(s, 1, Len(s) - 1)) ELSE s

strip(s) == rstrip(lstrip(s))

\* digits, with single underscores allowed between two digits
IsDigitBody(s) ==
    /\ s # <<>>
    /\ \A i \in DOMAIN s : s[i] \in Digits \/ s[i] = "_"
    /\ s[1] \in Digits
    /\ s[Len(s)] \in Digits
    /\ \A i \in 1..(Len(s) - 1) : ~(s[i] = "_" /\ s[i + 1] = "_")

RECURSIVE DigitBodyValue(_)
DigitBodyValue(s) ==
    IF s = <<>> THEN 0
    ELSE LET init == SubSeq(s, 1, Len(s) - 1)
             last == s[Len(s)]
         IN  IF last = "_" THEN DigitBodyValue(init)
             ELSE 10 * DigitBodyValue(init) + DigitValue[last]

ValueError == [ok |-> FALSE]

\* int(text): [ok |-> TRUE, value |-> n], or ValueError
int(text) ==
    LET s == strip(text)
        signed == s # <<>> /\ Head(s) \in {"+", "-"}
        body == IF signed THEN Tail(s) ELSE s
    IN  IF ~IsDigitBody(body) THEN ValueError
        ELSE [ok |-> TRUE,
              value |-> IF signed /\ Head(s) = "-"
                        THEN 0 - DigitBodyValue(body) ELSE DigitBodyValue(body)]

-----------------------------------------------------------------------------
(* SectorPerformanceGUI.validate_years *)

MinYear == 2014
MaxYear == 2024
YearLen == 4

MsgLength == "'From Year' and 'To Year' must be 4-digit numbers."
MsgRange == "Years must be between 2014 and 2024."
MsgOrder == "'From Year' should be <= 'To Year'."
MsgValue == "Please enter valid 4-digit years."

\* validate_years without the comparison of the two years (lines 130-131)
validate_years_NoOrder(from_year, to_year) ==
    IF Len(from_year) # YearLen \/ Len(to_year) # YearLen THEN MsgLength
    ELSE LET f == int(from_year)
             t == int(to_year)
         IN  IF ~f.ok \/ ~t.ok THEN MsgValue
             ELSE IF ~(MinYear <= f.value /\ f.value <= MaxYear)
                      \/ ~(MinYear <= t.value /\ t.value <= MaxYear) THEN MsgRange
             ELSE ""

validate_years(from_year, to_year) ==
    IF Len(from_year) # YearLen \/ Len(to_year) # YearLen THEN MsgLength
    ELSE LET f == int(from_year)
             t == int(to_year)
         IN  IF ~f.ok \/ ~t.ok THEN MsgValue
             ELSE IF ~(MinYear <= f.value /\ f.value <= MaxYear)
                      \/ ~(MinYear <= t.value /\ t.value <= MaxYear) THEN MsgRange
             ELSE IF f.value > t.value THEN MsgOrder
             ELSE ""

-----------------------------------------------------------------------------
(* Dates and the Date column *)

\* pandas parses ISO text "YYYY-MM-DD" cell by cell
ParseDate(text) ==
    [year  |-> DigitBodyValue(SubSeq(text, 1, 4)),
     month |-> DigitBodyValue(SubSeq(text, 6, 7)),
     day   |-> DigitBodyValue(SubSeq(text, 9, 10))]

\* a conversion that reads an already converted cell again, day first
to_datetime_Reparse(dtype, cell) ==
    IF dtype = "datetime64"
    THEN [year |-> cell.year, month |-> cell.day, day |-> cell.month]
    ELSE ParseDate(cell)

\* pd.to_datetime on one cell of a column of the given dtype
to_datetime(dtype, cell) ==
    IF dtype = "datetime64" THEN cell ELSE ParseDate(cell)

\* df["Date"] = pd.to_datetime(df["Date"]): the Date column replaced in place
ConvertDateColumn(df) ==
    [dtype |-> "datetime64",
     rows  |-> [i \in DOMAIN df.rows |->
                   [df.rows[i] EXCEPT !.Date = to_datetime(df.dtype, df.rows[i].Date)]]]

\* order of timestamps
DateLess(a, b) ==
    \/ a.year < b.year
    \/ a.year = b.year /\ a.month < b.month
    \/ a.year = b.year /\ a.month = b.month /\ a.day < b.day

-----------------------------------------------------------------------------
(* Input data: the rows the three CSV files may hold *)

NaN == <<>>
isnull(v) == v = NaN

Date_2014_01_02 == <<"2", "0", "1", "4", "-", "0", "1", "-", "0", "2">>
Date_2015_02_03 == <<"2", "0", "1", "5", "-", "0", "2", "-", "0", "3">>

DateTexts == {Date_2014_01_02, Date_2015_02_03}

Symbols == {"AAA", "BBB"}

\* <<High, Low, Close>> of a trading day; each may be missing
PriceTriples == {<<NaN, <<1>>, <<1>>>>, <<<<2>>, NaN, <<2>>>>, <<<<1>>, <<2>>, NaN>>}

StockRecords ==
    {[Symbol |-> s, Date |-> d, High |-> p[1], Low |-> p[2], Close |-> p[3]] :
        s \in Symbols, d \in DateTexts, p \in PriceTriples}

CompanyRecords ==
    {[Symbol |-> "AAA", Sector |-> "Energy", Shortname |-> "Acme", Revenuegrowth |-> 1],
     [Symbol |-> "BBB", Sector |-> "Energy", Shortname |-> "Acme", Revenuegrowth |-> 2],
     [Symbol |-> "BBB", Sector |-> "Technology", Shortname |-> "Bolt", Revenuegrowth |-> 3]}

\* the index levels of the two trading days
IndexRows == <<[Date |-> Date_2014_01_02, SP500 |-> 1], [Date |-> Date_2015_02_03, SP500 |-> 2]>>

\* the records that differ in Symbol and Date only
PlainStockRecords == {r \in StockRecords : isnull(r.High)}

\* pd.read_csv: text Date column, rows in file order
read_csv(rows) == [dtype |-> "object", rows |-> rows]

StockTables == {read_csv(r) : r \in SeqUpTo(StockRecords, MaxStockRows)}
PlainStockTables == {read_csv(r) : r \in SeqUpTo(PlainStockRecords, MaxStockRows)}
CompanyTables == SeqUpTo(CompanyRecords, MaxCompanyRows)

\* a small data set; the application is started on any part of it
SampleStocks ==
    <<[Symbol |-> "AAA", Date |-> Date_2014_01_02, High |-> <<2>>, Low |-> NaN, Close |-> <<2>>],
      [Symbol |-> "AAA", Date |-> Date_2015_02_03, High |-> <<1>>, Low |-> <<2>>, Close |-> NaN],
      [Symbol |-> "BBB", Date |-> Date_2015_02_03, High |-> NaN, Low |-> <<1>>, Close |-> <<1>>]>>
SampleCompanies ==
    <<[Symbol |-> "AAA", Sector |-> "Energy", Shortname |-> "Acme", Revenuegrowth |-> 1],
      [Symbol |-> "BBB", Sector |-> "Technology", Shortname |-> "Bolt", Revenuegrowth |-> 3]>>
SampleIndex == <<[Date |-> Date_2015_02_03, SP500 |-> 1]>>

SubTables(rows) == {SelectRows(rows, keep) : keep \in SUBSET DOMAIN rows}

IndexTables == {read_csv(r) : r \in SubTables(IndexRows)}

-----------------------------------------------------------------------------
(* pandas operations used by the views *)

RECURSIVE Concat(_)
\* the concatenation of a sequence of sequences
Concat(ss) == IF ss = <<>> THEN <<>> ELSE Head(ss) \o Concat(Tail(ss))

\* the rows of companies_df with the given Symbol, in table order
CompaniesOf(companies, symbol) ==
    SelectRows(companies, {i \in DOMAIN companies : companies[i].Symbol = symbol})

\* pd.merge(stocks, companies[["Symbol", "Sector", "Longname"]], on="Symbol", how="left")
merge_left(stock_rows, companies) ==
    Concat([i \in DOMAIN stock_rows |->
        LET r == stock_rows[i]
            m == CompaniesOf(companies, r.Symbol)
        IN  IF m = <<>>
            THEN <<[Symbol |-> r.Symbol, Date |-> r.Date, Close |-> r.Close, Sector |-> NaN]>>
            ELSE [j \in DOMAIN m |->
                    [Symbol |-> r.Symbol, Date |-> r.Date, Close |-> r.Close,
                     Sector |-> <<m[j].Sector>>]]])

\* a merge that keeps the stock rows without a company (how="left")
merge_inner_KeepUnmatched(stock_rows, companies) ==
    Concat([i \in DOMAIN stock_rows |->
        LET r == stock_rows[i]
            m == CompaniesOf(companies, r.Symbol)
        IN  IF m = <<>>
            THEN <<[Symbol |-> r.Symbol, Date |-> r.Date, Close |-> r.Close,
                    Sector |-> NaN, Shortname |-> NaN, Revenuegrowth |-> NaN]>>
            ELSE [j \in DOMAIN m |->
                    [Symbol |-> r.Symbol, Date |-> r.Date, Close |-> r.Close,
                     Sector |-> m[j].Sector, Shortname |-> m[j].Shortname,
                     Revenuegrowth |-> m[j].Revenuegrowth]]])

\* pd.merge(stocks, companies[["Symbol", "Sector", "Shortname", "Revenuegrowth"]], on="Symbol")
merge_inner(stock_rows, companies) ==
    Concat([i \in DOMAIN stock_rows |->
        LET r == stock_rows[i]
            m == CompaniesOf(companies, r.Symbol)
        IN  [j \in DOMAIN m |->
                [Symbol |-> r.Symbol, Date |-> r.Date, Close |-> r.Close,
                 Sector |-> m[j].Sector, Shortname |-> m[j].Shortname,
                 Revenuegrowth |-> m[j].Revenuegrowth]]])

RECURSIVE SortDates(_)
\* the timestamps of a set in increasing order
SortDates(S) ==
    IF S = {} THEN <<>>
    ELSE LET first == CHOOSE d \in S : \A e \in S \ {d} : DateLess(d, e)
         IN  <<first>> \o SortDates(S \ {first})

RECURSIVE SumOf(_)
\* sum of the present values of a sequence of cells
SumOf(cells) ==
    IF cells = <<>> THEN 0
    ELSE (IF isnull(Head(cells)) THEN 0 ELSE Head(cells)[1]) + SumOf(Tail(cells))

CountOf(cells) == Cardinality({i \in DOMAIN cells : ~isnull(cells[i])})

\* Series.mean(), skipping missing values: the quotient sum/count is kept as
\* the pair <<sum, count>>; NaN when no value is present
mean(cells) == IF CountOf(cells) = 0 THEN NaN ELSE <<SumOf(cells), CountOf(cells)>>

\* the Close column indexed by Date without grouping: one entry per row
groupby_Date_Close_mean_PerRow(rows) ==
    [i \in DOMAIN rows |-> [Date |-> rows[i].Date, value |-> mean(<<rows[i].Close>>)]]

\* rows.groupby("Date")["Close"].mean(): one entry per distinct date, sorted
groupby_Date_Close_mean(rows) ==
    LET keys == SortDates({rows[i].Date : i \in DOMAIN rows})
    IN  [k \in DOMAIN keys |->
            [Date  |-> keys[k],
             value |-> mean(LET g == SelectRows(rows, {i \in DOMAIN rows : rows[i].Date = keys[k]})
                            IN  [i \in DOMAIN g |-> g[i].Close])]]

-----------------------------------------------------------------------------
(* SectorPerformanceGUI.filter_data_by_sector_and_year: the two series      *)
(* computed from the tables once lines 177-178 have converted their Date    *)
(* columns.                                                                  *)

\* the year mask without its upper limit
YearInRange_NoUpper(d, from_year, to_year) == d.year >= from_year

YearInRange(d, from_year, to_year) == d.year >= from_year /\ d.year <= to_year

filter_data_by_sector_and_year(stocks, companies, index, selected_sector, from_year, to_year) ==
    LET merged_df == merge_left(stocks.rows, companies)
        sector_df == SelectRows(merged_df,
                        {i \in DOMAIN merged_df :
                            /\ merged_df[i].Sector = <<selected_sector>>
                            /\ YearInRange(merged_df[i].Date, from_year, to_year)})
        index_rows == SelectRows(index.rows,
                        {i \in DOMAIN index.rows :
                            YearInRange(index.rows[i].Date, from_year, to_year)})
    IN  [sector_performance |-> groupby_Date_Close_mean(sector_df),
         index_performance  |-> [i \in DOMAIN index_rows |->
                                    [Date |-> index_rows[i].Date, value |-> index_rows[i].SP500]]]

-----------------------------------------------------------------------------
(* RevenueGrowthAnalysisGUI.merge_dataframes *)

merge_dataframes(stocks, companies, selected_year) ==
    LET merged_df == merge_inner(stocks.rows, companies)
        dated == [i \in DOMAIN merged_df |->
                    [Symbol |-> merged_df[i].Symbol,
                     Date |-> to_datetime(stocks.dtype, merged_df[i].Date),
                     Close |-> merged_df[i].Close,
                     Sector |-> merged_df[i].Sector,
                     Shortname |-> merged_df[i].Shortname,
                     Revenuegrowth |-> merged_df[i].Revenuegrowth,
                     Year |-> to_datetime(stocks.dtype, merged_df[i].Date).year]]
    IN  SelectRows(dated, {i \in DOMAIN dated : dated[i].Year = selected_year})

-----------------------------------------------------------------------------
(* filter_stock_data, plot_stock_prices, add_price_annotations *)

\* a stock table's rows with their index labels (RangeIndex of read_csv)
Labelled(rows) == [i \in DOMAIN rows |-> [idx |-> i - 1, row |-> rows[i]]]

\* a lookup that answers an unknown short name with an empty table
filter_stock_data_EmptyOnUnknown(stock_df, companies, company_shortname, month, year) ==
    LET named == SelectRows(companies,
                    {i \in DOMAIN companies : companies[i].Shortname = company_shortname})
    IN  IF named = <<>> THEN [status |-> "ok", rows |-> <<>>]
        ELSE IF stock_df.dtype # "datetime64"
             THEN [status |-> "AttributeError", rows |-> <<>>]
        ELSE LET company_symbol == named[1].Symbol
                 lab == Labelled(stock_df.rows)
             IN  [status |-> "ok",
                  rows |-> SelectRows(lab,
                              {i \in DOMAIN lab :
                                  /\ lab[i].row.Symbol = company_symbol
                                  /\ lab[i].row.Date.month = month
                                  /\ lab[i].row.Date.year = year})]

\* a lookup that takes the last company carrying the short name
filter_stock_data_LastMatch(stock_df, companies, company_shortname, month, year) ==
    LET named == SelectRows(companies,
                    {i \in DOMAIN companies : companies[i].Shortname = company_shortname})
    IN  IF named = <<>> THEN [status |-> "IndexError", rows |-> <<>>]
        ELSE IF stock_df.dtype # "datetime64"
             THEN [status |-> "AttributeError", rows |-> <<>>]
        ELSE LET company_symbol == named[Len(named)].Symbol
                 lab == Labelled(stock_df.rows)
             IN  [status |-> "ok",
                  rows |-> SelectRows(lab,
                              {i \in DOMAIN lab :
                                  /\ lab[i].row.Symbol = company_symbol
                                  /\ lab[i].row.Date.month = month
                                  /\ lab[i].row.Date.year = year})]

filter_stock_data(stock_df, companies, company_shortname, month, year) ==
    LET named == SelectRows(companies,
                    {i \in DOMAIN companies : companies[i].Shortname = company_shortname})
    IN  IF named = <<>> THEN [status |-> "IndexError", rows |-> <<>>]
        ELSE IF stock_df.dtype # "datetime64"
             THEN [status |-> "AttributeError", rows |-> <<>>]
        ELSE LET company_symbol == named[1].Symbol
                 lab == Labelled(stock_df.rows)
             IN  [status |-> "ok",
                  rows |-> SelectRows(lab,
                              {i \in DOMAIN lab :
                                  /\ lab[i].row.Symbol = company_symbol
                                  /\ lab[i].row.Date.month = month
                                  /\ lab[i].row.Date.year = year})]

Present(cells) == {cells[i][1] : i \in {j \in DOMAIN cells : ~isnull(cells[j])}}

\* Series.max() / Series.min(), skipping missing values
max(cells) ==
    IF Present(cells) = {} THEN NaN
    ELSE <<CHOOSE v \in Present(cells) : \A w \in Present(cells) : w <= v>>
min(cells) ==
    IF Present(cells) = {} THEN NaN
    ELSE <<CHOOSE v \in Present(cells) : \A w \in Present(cells) : v <= w>>

Column(frame, col) ==
    [i \in DOMAIN frame |->
        IF col = "High" THEN frame[i].row.High ELSE frame[i].row.Low]

\* Series.idxmin(): the label of the first row holding the minimum
idxmin(frame, col) ==
    LET c == Column(frame, col)
        first == CHOOSE i \in DOMAIN c :
                    /\ c[i] = min(c)
                    /\ \A j \in 1..(i - 1) : c[j] # min(c)
    IN  frame[first].idx

\* idxmin written where idxmax was meant
idxmax_AsMin(frame, col) == idxmin(frame, col)

\* Series.idxmax(): the label of the first row holding the maximum
idxmax(frame, col) ==
    LET c == Column(frame, col)
        first == CHOOSE i \in DOMAIN c :
                    /\ c[i] = max(c)
                    /\ \A j \in 1..(i - 1) : c[j] # max(c)
    IN  frame[first].idx

\* frame.loc[label]
loc(frame, label) == (CHOOSE e \in Range(frame) : e.idx = label).row

\* Series.isnull().all()
all_null(cells) == \A i \in DOMAIN cells : isnull(cells[i])

add_price_annotations(filtered_stock, high_price, low_price) ==
    (IF ~all_null(Column(filtered_stock, "High"))
     THEN <<[x |-> loc(filtered_stock, idxmax(filtered_stock, "High")).Date,
             y |-> high_price, text |-> "Highest Price"]>>
     ELSE <<>>)
    \o
    (IF ~all_null(Column(filtered_stock, "Low"))
     THEN <<[x |-> loc(filtered_stock, idxmin(filtered_stock, "Low")).Date,
             y |-> low_price, text |-> "Lowest Price"]>>
     ELSE <<>>)

plot_stock_prices(filtered_stock) ==
    LET high_price == max(Column(filtered_stock, "High"))
        low_price == min(Column(filtered_stock, "Low"))
    IN  [x |-> [i \in DOMAIN filtered_stock |-> filtered_stock[i].row.Date],
         High |-> Column(filtered_stock, "High"),
         Low |-> Column(filtered_stock, "Low"),
         annotations |-> add_price_annotations(filtered_stock, high_price, low_price)]

-----------------------------------------------------------------------------
(* Inputs of the handlers *)

Text_2014 == <<"2", "0", "1", "4">>
Text_2015 == <<"2", "0", "1", "5">>

\* contents a year field may be given
YearTexts == {<<>>, Text_2014, Text_2015, <<"2", "0", "x", "5">>}

\* items of a QComboBox filled from a column: the current text of an empty
\* combo box is the empty string
ComboChoices(items) == IF items = {} THEN {""} ELSE items

unique_sectors(companies) == {companies[i].Sector : i \in DOMAIN companies}
unique_shortnames(companies) == {companies[i].Shortname : i \in DOMAIN companies}

\* items of the year and month combo boxes that the model selects
YearChoices == {2014, 2015, 2016}
MonthChoices == {1, 2}

-----------------------------------------------------------------------------
(* State *)

NoSectorWindow ==
    [open |-> FALSE, from_year_input |-> <<>>, to_year_input |-> <<>>,
     year_error_label |-> ""]

NoResult == [op |-> "none", args |-> <<>>, kind |-> "none", data |-> <<>>]

Started(st, co, ix, res) ==
    /\ stocks_df = st
    /\ companies_df = co
    /\ index_df = ix
    /\ loaded = [stocks_df |-> st, companies_df |-> co, index_df |-> ix]
    /\ sector_performance_window = NoSectorWindow
    /\ revenue_growth_window = FALSE
    /\ monthly_analysis_window = FALSE
    /\ result = res
    /\ app = "running"

Loaded(st, co, ix) == Started(st, co, ix, NoResult)

\* the state once the three CSV files are read and the launcher is shown
Init ==
    \E st \in SubTables(SampleStocks), co \in SubTables(SampleCompanies),
       ix \in SubTables(SampleIndex) : Loaded(read_csv(st), co, read_csv(ix))

-----------------------------------------------------------------------------
(* MainWindow: the three launcher buttons *)

open_sector_performance_analysis ==
    /\ app = "running"
    /\ sector_performance_window' =
          [open |-> TRUE, from_year_input |-> <<>>, to_year_input |-> <<>>,
           year_error_label |-> ""]
    /\ result' = [op |-> "open_sector_performance_analysis", args |-> <<>>,
                  kind |-> "window", data |-> <<>>]
    /\ UNCHANGED <<tables, loaded, revenue_growth_window, monthly_analysis_window, app>>

open_revenue_growth_analysis ==
    /\ app = "running"
    /\ revenue_growth_window' = TRUE
    /\ result' = [op |-> "open_revenue_growth_analysis", args |-> <<>>,
                  kind |-> "window", data |-> <<>>]
    /\ UNCHANGED <<tables, loaded, sector_performance_window, monthly_analysis_window, app>>

\* MonthlyStockAnalysisGUI.__init__ converts the Date column of the shared
\* stock table in place (line 385)
open_monthly_analysis ==
    /\ app = "running"
    /\ stocks_df' = ConvertDateColumn(stocks_df)
    /\ monthly_analysis_window' = TRUE
    /\ result' = [op |-> "open_monthly_analysis", args |-> <<>>,
                  kind |-> "window", data |-> <<>>]
    /\ UNCHANGED <<companies_df, index_df, loaded, sector_performance_window,
                   revenue_growth_window, app>>

-----------------------------------------------------------------------------
(* SectorPerformanceGUI *)

\* slot of both year fields' textChanged signal
\* a slot that reads the From field for both years
validate_year_input_FromTwice(w) ==
    [w EXCEPT !.year_error_label = validate_years(w.from_year_input, w.from_year_input)]

validate_year_input(w) ==
    [w EXCEPT !.year_error_label = validate_years(w.from_year_input, w.to_year_input)]

from_year_textChanged(text) ==
    /\ app = "running"
    /\ sector_performance_window.open
    /\ text # sector_performance_window.from_year_input
    /\ LET w == [sector_performance_window EXCEPT !.from_year_input = text]
       IN  /\ sector_performance_window' = validate_year_input(w)
           /\ result' = [op |-> "validate_year_input", args |-> <<w.from_year_input, w.to_year_input>>,
                         kind |-> "label",
                         data |-> validate_years(w.from_year_input, w.to_year_input)]
    /\ UNCHANGED <<tables, loaded, revenue_growth_window, monthly_analysis_window, app>>

to_year_textChanged(text) ==
    /\ app = "running"
    /\ sector_performance_window.open
    /\ text # sector_performance_window.to_year_input
    /\ LET w == [sector_performance_window EXCEPT !.to_year_input = text]
       IN  /\ sector_performance_window' = validate_year_input(w)
           /\ result' = [op |-> "validate_year_input", args |-> <<w.from_year_input, w.to_year_input>>,
                         kind |-> "label",
                         data |-> validate_years(w.from_year_input, w.to_year_input)]
    /\ UNCHANGED <<tables, loaded, revenue_growth_window, monthly_analysis_window, app>>

\* the handler's outcome once the years are validated
SectorChart(selected_sector, from_year, to_year, stocks, index) ==
    [op |-> "perform_sector_analysis",
     args |-> <<selected_sector, from_year, to_year>>,
     kind |-> "chart",
     data |-> filter_data_by_sector_and_year(
                 stocks, companies_df, index,
                 selected_sector, int(from_year).value, int(to_year).value)]

\* the Date columns converted before the years are validated
perform_sector_analysis_ConvertFirst(selected_sector) ==
    /\ app = "running"
    /\ sector_performance_window.open
    /\ selected_sector \in ComboChoices(unique_sectors(companies_df))
    /\ stocks_df' = ConvertDateColumn(stocks_df)
    /\ index_df' = ConvertDateColumn(index_df)
    /\ LET from_year == sector_performance_window.from_year_input
           to_year == sector_performance_window.to_year_input
           message == validate_years(from_year, to_year)
       IN  IF message # ""
           THEN result' = [op |-> "perform_sector_analysis",
                           args |-> <<selected_sector, from_year, to_year>>,
                           kind |-> "warning", data |-> message]
           ELSE result' = SectorChart(selected_sector, from_year, to_year, stocks_df', index_df')
    /\ UNCHANGED <<companies_df, loaded, windows, app>>

\* a "No Data" notice in place of the chart when the sector series is empty
perform_sector_analysis_NoData(selected_sector) ==
    /\ app = "running"
    /\ sector_performance_window.open
    /\ selected_sector \in ComboChoices(unique_sectors(companies_df))
    /\ LET from_year == sector_performance_window.from_year_input
           to_year == sector_performance_window.to_year_input
           message == validate_years(from_year, to_year)
       IN  IF message # ""
           THEN /\ result' = [op |-> "perform_sector_analysis",
                              args |-> <<selected_sector, from_year, to_year>>,
                              kind |-> "warning", data |-> message]
                /\ UNCHANGED tables
           ELSE /\ stocks_df' = ConvertDateColumn(stocks_df)
                /\ index_df' = ConvertDateColumn(index_df)
                /\ UNCHANGED companies_df
                /\ LET chart == SectorChart(selected_sector, from_year, to_year,
                                            stocks_df', index_df')
                   IN  result' = IF chart.data.sector_performance = <<>>
                                 THEN [chart EXCEPT !.kind = "No Data"]
                                 ELSE chart
    /\ UNCHANGED <<loaded, windows, app>>

\* the rows of the year range written back to the shared stock table
perform_sector_analysis_KeepFiltered(selected_sector) ==
    /\ app = "running"
    /\ sector_performance_window.open
    /\ selected_sector \in ComboChoices(unique_sectors(companies_df))
    /\ LET from_year == sector_performance_window.from_year_input
           to_year == sector_performance_window.to_year_input
           message == validate_years(from_year, to_year)
       IN  IF message # ""
           THEN /\ result' = [op |-> "perform_sector_analysis",
                              args |-> <<selected_sector, from_year, to_year>>,
                              kind |-> "warning", data |-> message]
                /\ UNCHANGED tables
           ELSE /\ LET converted == ConvertDateColumn(stocks_df)
                   IN  stocks_df' =
                          [converted EXCEPT !.rows = SelectRows(converted.rows,
                              {i \in DOMAIN converted.rows :
                                  YearInRange(converted.rows[i].Date,
                                              int(from_year).value, int(to_year).value)})]
                /\ index_df' = ConvertDateColumn(index_df)
                /\ UNCHANGED companies_df
                /\ result' = SectorChart(selected_sector, from_year, to_year,
                                         stocks_df', index_df')
    /\ UNCHANGED <<loaded, windows, app>>

\* the Analyze button of the sector view
perform_sector_analysis(selected_sector) ==
    /\ app = "running"
    /\ sector_performance_window.open
    /\ selected_sector \in ComboChoices(unique_sectors(companies_df))
    /\ LET from_year == sector_performance_window.from_year_input
           to_year == sector_performance_window.to_year_input
           message == validate_years(from_year, to_year)
       IN  IF message # ""
           THEN /\ result' = [op |-> "perform_sector_analysis",
                              args |-> <<selected_sector, from_year, to_year>>,
                              kind |-> "warning", data |-> message]
                /\ UNCHANGED tables
           ELSE /\ stocks_df' = ConvertDateColumn(stocks_df)
                /\ index_df' = ConvertDateColumn(index_df)
                /\ UNCHANGED companies_df
                /\ result' = SectorChart(selected_sector, from_year, to_year,
                                         stocks_df', index_df')
    /\ UNCHANGED <<loaded, windows, app>>

-----------------------------------------------------------------------------
(* RevenueGrowthAnalysisGUI *)

\* the Analyze button of the revenue-growth view
perform_analysis(selected_year) ==
    /\ app = "running"
    /\ revenue_growth_window
    /\ LET merged_df == merge_dataframes(stocks_df, companies_df, selected_year)
       IN  result' = [op |-> "perform_analysis", args |-> <<selected_year>>,
                      kind |-> IF merged_df # <<>> THEN "chart" ELSE "No Data",
                      data |-> merged_df]
    /\ UNCHANGED <<tables, loaded, windows, app>>

-----------------------------------------------------------------------------
(* MonthlyStockAnalysisGUI *)

\* the Analyze button of the monthly view; an exception that escapes the slot
\* either ends the process or is only reported, depending on the Qt binding
analyze_stock(company_shortname, month, year) ==
    /\ app = "running"
    /\ monthly_analysis_window
    /\ company_shortname \in ComboChoices(unique_shortnames(companies_df))
    /\ LET filtered_stock ==
              filter_stock_data(stocks_df, companies_df, company_shortname, month, year)
       IN  IF filtered_stock.status # "ok"
           THEN /\ result' = [op |-> "analyze_stock",
                              args |-> <<company_shortname, month, year>>,
                              kind |-> filtered_stock.status, data |-> <<>>]
                /\ app' \in {"running", "crashed"}
           ELSE /\ result' = [op |-> "analyze_stock",
                              args |-> <<company_shortname, month, year>>,
                              kind |-> IF filtered_stock.rows # <<>> THEN "chart" ELSE "No Data",
                              data |-> IF filtered_stock.rows # <<>>
                                       THEN plot_stock_prices(filtered_stock.rows)
                                       ELSE <<>>]
                /\ UNCHANGED app
    /\ UNCHANGED <<tables, loaded, windows>>

-----------------------------------------------------------------------------
(* The application: the Qt event loop runs one handler at a time *)

Next ==
    \/ open_sector_performance_analysis
    \/ open_revenue_growth_analysis
    \/ open_monthly_analysis
    \/ \E text \in YearTexts : from_year_textChanged(text)
    \/ \E text \in YearTexts : to_year_textChanged(text)
    \/ \E s \in unique_sectors(companies_df) \cup {""} : perform_sector_analysis(s)
    \/ \E y \in YearChoices : perform_analysis(y)
    \/ \E n \in unique_shortnames(companies_df) \cup {""}, m \in MonthChoices, y \in YearChoices :
          analyze_stock(n, m, y)

Spec == Init /\ [][Next]_vars

-----------------------------------------------------------------------------
(* validate_years applied to year texts: every text over YearAlphabet up to  *)
(* MaxYearLen characters in one field, against the texts of YearProbes in    *)
(* the other                                                                 *)

YearAlphabet == {"0", "1", "2", "4", "x", "_", "-", " "}

AllYearTexts == SeqUpTo(YearAlphabet, MaxYearLen)

YearProbes ==
    {Text_2014, <<"2", "0", "2", "4">>, <<"2", "0", "x", "5">>, <<"2", "0", "1", "4", "5">>}

EmptyTable == read_csv(<<>>)

InitValidate ==
    \E probe \in YearProbes, text \in AllYearTexts \cup YearProbes, probe_first \in BOOLEAN :
        Started(EmptyTable, <<>>, EmptyTable,
                [op |-> "validate_years",
                 args |-> IF probe_first THEN <<probe, text>> ELSE <<text, probe>>,
                 kind |-> "called", data |-> ""])

call_validate_years ==
    /\ result.op = "validate_years"
    /\ result.kind = "called"
    /\ result' = [result EXCEPT !.kind = "returned",
                                !.data = validate_years(result.args[1], result.args[2])]
    /\ UNCHANGED <<tables, loaded, windows, app>>

SpecValidate == InitValidate /\ [][call_validate_years]_vars

-----------------------------------------------------------------------------
(* filter_data_by_sector_and_year called on loaded tables *)

SectorChoices == {"Energy", "Technology"}

call_filter_data_by_sector_and_year(selected_sector, from_year, to_year) ==
    /\ stocks_df' = ConvertDateColumn(stocks_df)
    /\ index_df' = ConvertDateColumn(index_df)
    /\ result' = [op |-> "filter_data_by_sector_and_year",
                  args |-> <<selected_sector, from_year, to_year>>,
                  kind |-> "returned",
                  data |-> filter_data_by_sector_and_year(
                              stocks_df', companies_df, index_df',
                              selected_sector, from_year, to_year)]
    /\ UNCHANGED <<companies_df, loaded, windows, app>>

InitSector ==
    \E st \in PlainStockTables, co \in CompanyTables, ix \in IndexTables : Loaded(st, co, ix)

NextSector ==
    \E s \in SectorChoices, f \in YearChoices, t \in YearChoices :
        f <= t /\ call_filter_data_by_sector_and_year(s, f, t)

SpecSector == InitSector /\ [][NextSector]_vars

-----------------------------------------------------------------------------
(* filter_stock_data called on the tables of a MonthlyStockAnalysisGUI *)

ShortnameChoices == {"Acme", "Bolt", "Zeta"}

call_filter_stock_data(company_shortname, month, year) ==
    /\ LET r == filter_stock_data(stocks_df, companies_df, company_shortname, month, year)
       IN  result' = [op |-> "filter_stock_data",
                      args |-> <<company_shortname, month, year>>,
                      kind |-> IF r.status = "ok" THEN "returned" ELSE r.status,
                      data |-> r.rows]
    /\ UNCHANGED <<tables, loaded, windows, app>>

InitMonthly ==
    \E st \in PlainStockTables, co \in CompanyTables : Loaded(st, co, EmptyTable)

NextMonthly ==
    \/ open_monthly_analysis
    \/ \E n \in ShortnameChoices, m \in MonthChoices, y \in YearChoices :
          call_filter_stock_data(n, m, y)

SpecMonthly == InitMonthly /\ [][NextMonthly]_vars

-----------------------------------------------------------------------------
(* merge_dataframes called on the tables of a RevenueGrowthAnalysisGUI; the
   shared stock table may have had its Date column converted by the monthly
   view's constructor before *)

call_merge_dataframes(selected_year) ==
    /\ result' = [op |-> "merge_dataframes", args |-> <<selected_year>>,
                  kind |-> "returned",
                  data |-> merge_dataframes(stocks_df, companies_df, selected_year)]
    /\ UNCHANGED <<tables, loaded, windows, app>>

InitRevenue ==
    \E co \in CompanyTables, st \in PlainStockTables : Loaded(st, co, EmptyTable)

NextRevenue ==
    \/ open_monthly_analysis
    \/ \E y \in YearChoices : call_merge_dataframes(y)

SpecRevenue == InitRevenue /\ [][NextRevenue]_vars

-----------------------------------------------------------------------------
(* plot_stock_prices called on a frame of stock rows *)

call_plot_stock_prices(keep) ==
    /\ LET filtered_stock == SelectRows(Labelled(stocks_df.rows), keep)
       IN  result' = [op |-> "plot_stock_prices", args |-> filtered_stock,
                      kind |-> "chart", data |-> plot_stock_prices(filtered_stock)]
    /\ UNCHANGED <<tables, loaded, windows, app>>

InitPlot == \E st \in StockTables : Loaded(st, <<>>, EmptyTable)

NextPlot == \E keep \in SUBSET DOMAIN stocks_df.rows : call_plot_stock_prices(keep)

SpecPlot == InitPlot /\ [][NextPlot]_vars

-----------------------------------------------------------------------------
(* Properties *)

\* a text of exactly four decimal digits, and the number it writes
IsFourDigits(text) == Len(text) = 4 /\ \A i \in 1..4 : text[i] \in Digits
FourDigitValue(text) ==
    1000 * DigitValue[text[1]] + 100 * DigitValue[text[2]]
        + 10 * DigitValue[text[3]] + DigitValue[text[4]]

\* both texts have length 4, are numbers, and 2014 <= from <= to <= 2024
\* (a text of length 4 that int() accepts and that is not four digits holds a
\* sign, blank or underscore and denotes a number below 1000)
ValidYearPair(from_year, to_year) ==
    /\ IsFourDigits(from_year)
    /\ IsFourDigits(to_year)
    /\ 2014 <= FourDigitValue(from_year)
    /\ FourDigitValue(from_year) <= FourDigitValue(to_year)
    /\ FourDigitValue(to_year) <= 2024

\* C1: validate_years returns the empty message exactly when both texts have
\* length 4, both are integers and 2014 <= from <= to <= 2024; every other
\* pair of texts gets a non-empty message.
C1_ValidateYears ==
    (result.op = "validate_years" /\ result.kind = "returned")
        => (result.data = "" <=> ValidYearPair(result.args[1], result.args[2]))

\* validate_years has accepted a range of more than one year
C1_Witness ==
    /\ result.op = "validate_years"
    /\ result.kind = "returned"
    /\ result.data = ""
    /\ result.args[1] # result.args[2]

\* the dates of the entries of a series
SeriesDates(series) == {series[i].Date : i \in DOMAIN series}

\* C3: for from <= to within [2014, 2024] and any sector, the sector series
\* and the index series returned by filter_data_by_sector_and_year hold only
\* dates whose year is in [from, to].
C3_DatesInRange ==
    result.op = "filter_data_by_sector_and_year"
        => \A d \in SeriesDates(result.data.sector_performance)
                    \cup SeriesDates(result.data.index_performance) :
               result.args[2] <= d.year /\ d.year <= result.args[3]

\* both series are non-empty; a stock row and an index row dated after the
\* range are left out
C3_Witness ==
    /\ result.op = "filter_data_by_sector_and_year"
    /\ result.data.sector_performance # <<>>
    /\ result.data.index_performance # <<>>
    /\ \E i \in DOMAIN stocks_df.rows : stocks_df.rows[i].Date.year > result.args[3]
    /\ \E i \in DOMAIN index_df.rows : index_df.rows[i].Date.year > result.args[3]

\* the dates in [from, to] on which a loaded stock row belongs, through a
\* CompanyRecord of its Symbol, to the sector
SectorDates(sector, from_year, to_year) ==
    {ParseDate(r.Date) : r \in
        {r \in Range(loaded.stocks_df.rows) :
            /\ from_year <= ParseDate(r.Date).year
            /\ ParseDate(r.Date).year <= to_year
            /\ \E c \in Range(loaded.companies_df) :
                  c.Symbol = r.Symbol /\ c.Sector = sector}}

\* C4: the sector series has exactly one entry per distinct date in
\* [from, to] on which at least one stock row belongs to the sector; rows
\* whose Symbol has no CompanyRecord contribute nothing.
C4_OneEntryPerDate ==
    result.op = "filter_data_by_sector_and_year"
        => LET dates == SectorDates(result.args[1], result.args[2], result.args[3])
               series == result.data.sector_performance
           IN  /\ SeriesDates(series) = dates
               /\ Len(series) = Cardinality(dates)

\* two stock rows of the sector on the same date give one entry
C4_Witness ==
    /\ result.op = "filter_data_by_sector_and_year"
    /\ Len(result.data.sector_performance) = 1
    /\ Len(stocks_df.rows) = 2
    /\ stocks_df.rows[1].Date = stocks_df.rows[2].Date
    /\ stocks_df.rows[1].Symbol # stocks_df.rows[2].Symbol
    /\ \A i \in 1..2 : \E c \in Range(companies_df) :
          c.Symbol = stocks_df.rows[i].Symbol /\ c.Sector = result.args[1]


\* C2: in the sector view an Analyze whose year fields fail validation is
\* blocked: the validation message is shown as a warning, nothing is filtered
\* or plotted, the shared tables stay as they are and the application keeps
\* running; a chart is produced only when validation of the current field
\* contents returned the empty message.
C2_InvalidYearsBlocked ==
    [][result'.op = "perform_sector_analysis"
        => LET w == sector_performance_window
               message == validate_years(w.from_year_input, w.to_year_input)
           IN  /\ message # ""
                    => /\ result'.kind = "warning"
                       /\ result'.data = message
                       /\ tables' = tables
                       /\ app' = "running"
               /\ result'.kind = "chart" => message = ""]_vars

\* an Analyze of the sector view was blocked with the order message
C2_Witness ==
    /\ result.op = "perform_sector_analysis"
    /\ result.kind = "warning"
    /\ result.data = MsgOrder

\* a loaded stock row of the year has a CompanyRecord
RevenueRowsExist(year) ==
    \E r \in Range(loaded.stocks_df.rows) :
        /\ ParseDate(r.Date).year = year
        /\ \E c \in Range(loaded.companies_df) : c.Symbol = r.Symbol

\* a loaded stock row of the month belongs to the first company of that name
MonthlyRowsExist(shortname, month, year) ==
    \E i \in DOMAIN loaded.companies_df :
        /\ loaded.companies_df[i].Shortname = shortname
        /\ \A j \in 1..(i - 1) : loaded.companies_df[j].Shortname # shortname
        /\ \E r \in Range(loaded.stocks_df.rows) :
              /\ r.Symbol = loaded.companies_df[i].Symbol
              /\ ParseDate(r.Date).month = month
              /\ ParseDate(r.Date).year = year

\* C5 (as claimed): in the revenue-growth view and in the monthly view every
\* Analyze ends in exactly one of two outcomes: a chart when the filtered
\* result has a row, a "No Data" notice and no chart when it has none; an
\* empty result is never an error.
C5_ChartOrNoData ==
    /\ result.op = "perform_analysis"
          => result.kind = IF RevenueRowsExist(result.args[1]) THEN "chart" ELSE "No Data"
    /\ result.op = "analyze_stock"
          => result.kind = IF MonthlyRowsExist(result.args[1], result.args[2], result.args[3])
                           THEN "chart" ELSE "No Data"

\* the loaded stock rows of the sector in the year range
SectorRows(sector, from_year, to_year) ==
    {i \in DOMAIN loaded.stocks_df.rows :
        LET r == loaded.stocks_df.rows[i]
        IN  /\ from_year <= ParseDate(r.Date).year
            /\ ParseDate(r.Date).year <= to_year
            /\ \E c \in Range(loaded.companies_df) :
                  c.Symbol = r.Symbol /\ c.Sector = sector}

\* the sector Analyze passed validation and no stock row matches it
SectorAnalyzeWithoutRows ==
    /\ result.op = "perform_sector_analysis"
    /\ result.kind # "warning"
    /\ SectorRows(result.args[1], int(result.args[2]).value, int(result.args[3]).value) = {}

\* C6 (as claimed): in the sector view an Analyze with valid years whose
\* filter yields no rows gives a "No Data" notice instead of a chart.
C6_NoDataNotice == SectorAnalyzeWithoutRows => result.kind = "No Data"

\* C6 (amended): in the sector view an Analyze with valid years whose filter
\* yields no rows still draws the chart, with an empty sector series; no
\* "No Data" notice is given.
C6_EmptyChart ==
    SectorAnalyzeWithoutRows
        => result.kind = "chart" /\ result.data.sector_performance = <<>>

\* the sector view drew a chart without sector rows from a non-empty stock table
C6_Witness ==
    /\ SectorAnalyzeWithoutRows
    /\ result.kind = "chart"
    /\ stocks_df.rows # <<>>
    /\ companies_df # <<>>

\* the present values of a column of a frame
ColumnValues(frame, col) == Present(Column(frame, col))

\* the annotations of a chart with the given text
Annotations(chart, text) ==
    {chart.annotations[i] : i \in {j \in DOMAIN chart.annotations :
                                      chart.annotations[j].text = text}}

\* C7: the highest-price annotation is added only when the High column of the
\* window has a non-missing value, the lowest-price annotation only when the
\* Low column has one, each independently of the other column; an annotation
\* that is added sits at the date of a row holding the maximum High
\* (the minimum Low) of the window.
C7_Annotations ==
    result.op = "plot_stock_prices"
        => LET frame == result.args
               highs == Annotations(result.data, "Highest Price")
               lows == Annotations(result.data, "Lowest Price")
           IN  /\ (highs # {}) <=> (ColumnValues(frame, "High") # {})
               /\ (lows # {}) <=> (ColumnValues(frame, "Low") # {})
               /\ \A a \in highs :
                     \E i \in DOMAIN frame :
                        /\ a.x = frame[i].row.Date
                        /\ frame[i].row.High = a.y
                        /\ \A v \in ColumnValues(frame, "High") : v <= a.y[1]
               /\ \A a \in lows :
                     \E i \in DOMAIN frame :
                        /\ a.x = frame[i].row.Date
                        /\ frame[i].row.Low = a.y
                        /\ \A v \in ColumnValues(frame, "Low") : a.y[1] <= v

\* a window of two days: the highest price on the first, a missing High on
\* the second, which holds the lowest price
C7_Witness ==
    /\ result.op = "plot_stock_prices"
    /\ Len(result.args) = 2
    /\ isnull(result.args[2].row.High)
    /\ Len(result.data.annotations) = 2
    /\ result.data.annotations[1].x = result.args[1].row.Date
    /\ result.data.annotations[2].x = result.args[2].row.Date
    /\ result.args[1].row.Date # result.args[2].row.Date


\* what each Analyze yields when it is the first action after load
FreshSectorAnalysis(selected_sector, from_year, to_year) ==
    LET message == validate_years(from_year, to_year)
    IN  IF message # "" THEN [kind |-> "warning", data |-> message]
        ELSE [kind |-> "chart",
              data |-> filter_data_by_sector_and_year(
                          ConvertDateColumn(loaded.stocks_df), loaded.companies_df,
                          ConvertDateColumn(loaded.index_df),
                          selected_sector, int(from_year).value, int(to_year).value)]

FreshRevenueAnalysis(selected_year) ==
    LET merged_df == merge_dataframes(loaded.stocks_df, loaded.companies_df, selected_year)
    IN  [kind |-> IF merged_df # <<>> THEN "chart" ELSE "No Data", data |-> merged_df]

FreshMonthlyAnalysis(company_shortname, month, year) ==
    LET filtered_stock == filter_stock_data(ConvertDateColumn(loaded.stocks_df),
                                            loaded.companies_df, company_shortname, month, year)
    IN  IF filtered_stock.status # "ok" THEN [kind |-> filtered_stock.status, data |-> <<>>]
        ELSE IF filtered_stock.rows # <<>>
             THEN [kind |-> "chart", data |-> plot_stock_prices(filtered_stock.rows)]
             ELSE [kind |-> "No Data", data |-> <<>>]

Outcome == [kind |-> result.kind, data |-> result.data]

\* C8: the result of an Analyze depends only on its inputs and the loaded
\* tables: after any sequence of window openings and Analyze actions in the
\* three views it is the result the same Analyze has when it is the first
\* action after load (so repeating it with the same inputs repeats the result).
C8_AnalyzeIsStateless ==
    /\ result.op = "perform_sector_analysis"
          => Outcome = FreshSectorAnalysis(result.args[1], result.args[2], result.args[3])
    /\ result.op = "perform_analysis"
          => Outcome = FreshRevenueAnalysis(result.args[1])
    /\ result.op = "analyze_stock"
          => Outcome = FreshMonthlyAnalysis(result.args[1], result.args[2], result.args[3])

\* a revenue-growth chart drawn with all three windows open, after the other
\* views have worked on the shared tables
C8_Witness ==
    /\ result.op = "perform_analysis"
    /\ result.kind = "chart"
    /\ sector_performance_window.open
    /\ monthly_analysis_window
    /\ stocks_df.dtype = "datetime64"
    /\ index_df.dtype = "datetime64"

\* the records of a table are those that were loaded
RecordsAsLoaded(df, df0) ==
    /\ Len(df.rows) = Len(df0.rows)
    /\ df.rows # <<>> => df.dtype = df0.dtype
    /\ df.dtype = df0.dtype => df.rows = df0.rows

\* C9 (as claimed): no record is ever mutated after load: no window opening
\* and no Analyze adds, removes or changes a record of the shared stock,
\* company or index tables.
C9_NoRecordMutated ==
    /\ RecordsAsLoaded(stocks_df, loaded.stocks_df)
    /\ companies_df = loaded.companies_df
    /\ RecordsAsLoaded(index_df, loaded.index_df)

\* the table is as loaded, or as loaded with its Date column parsed
AsLoadedOrDateParsed(df, df0) ==
    IF df.dtype = df0.dtype THEN df = df0
    ELSE /\ df.dtype = "datetime64"
         /\ Len(df.rows) = Len(df0.rows)
         /\ \A i \in DOMAIN df.rows :
               df.rows[i] = [df0.rows[i] EXCEPT !.Date = ParseDate(df0.rows[i].Date)]

\* C9 (amended): no window opening and no Analyze adds, removes or reorders a
\* record of the shared tables or changes a field other than Date; the Date
\* column of the stock table and of the index table is replaced in place, as
\* a whole, by the timestamps its texts denote (stock table: on opening the
\* monthly view and on a sector Analyze that passes validation; index table:
\* on such a sector Analyze); the company table never changes.
C9_OnlyDateColumnConverted ==
    /\ AsLoadedOrDateParsed(stocks_df, loaded.stocks_df)
    /\ companies_df = loaded.companies_df
    /\ AsLoadedOrDateParsed(index_df, loaded.index_df)
    /\ (stocks_df.dtype = "datetime64")
          => \/ monthly_analysis_window
             \/ result.op = "perform_sector_analysis" /\ result.kind = "chart"
             \/ index_df.dtype = "datetime64"
    /\ (index_df.dtype = "datetime64") => (stocks_df.dtype = "datetime64")

\* a sector chart was drawn from a stock table whose rows are dated outside
\* and inside the year range, and the table still holds all of them
C9_Witness ==
    /\ result.op = "perform_sector_analysis"
    /\ result.kind = "chart"
    /\ stocks_df.dtype = "datetime64"
    /\ \E i \in DOMAIN stocks_df.rows :
          stocks_df.rows[i].Date.year < int(result.args[2]).value
    /\ Len(stocks_df.rows) = Len(loaded.stocks_df.rows)

\* C10: filter_stock_data called with a short name that matches no
\* CompanyRecord ends in an unhandled lookup failure: no table is returned
\* (neither an empty one nor a "No Data" notice) and the shared tables are
\* left as they were.
C10_UnknownShortnameFails ==
    [][(/\ result'.op = "filter_stock_data"
        /\ \A c \in Range(companies_df) : c.Shortname # result'.args[1])
            => /\ result'.kind = "IndexError"
               /\ tables' = tables]_vars

\* the lookup failed on a non-empty company table, the Date column converted
C10_Witness ==
    /\ result.op = "filter_stock_data"
    /\ result.kind = "IndexError"
    /\ companies_df # <<>>
    /\ stocks_df.rows # <<>>
    /\ stocks_df.dtype = "datetime64"

-----------------------------------------------------------------------------
(* C11 *)

\* the position in the company table of the first record with the short name
FirstNamed(company_shortname) ==
    CHOOSE i \in DOMAIN companies_df :
        /\ companies_df[i].Shortname = company_shortname
        /\ \A j \in 1..(i - 1) : companies_df[j].Shortname # company_shortname

\* the positions of the stock rows of a Symbol dated in a month of a year
RowsOfMonth(symbol, month, year) ==
    {i \in DOMAIN stocks_df.rows :
        /\ stocks_df.rows[i].Symbol = symbol
        /\ stocks_df.rows[i].Date.month = month
        /\ stocks_df.rows[i].Date.year = year}

\* C11: when some CompanyRecord has the short name (and the Date column has
\* been converted, as the monthly view's constructor does), filter_stock_data
\* returns a table holding exactly the stock rows whose Symbol is that of the
\* first such record in table order and whose date has the given month and
\* year: each of them once, in table order, under its own index label, and no
\* other row, also when several companies share the short name.
C11_FirstMatchRows ==
    (/\ result.op = "filter_stock_data"
     /\ stocks_df.dtype = "datetime64"
     /\ \E c \in Range(companies_df) : c.Shortname = result.args[1])
        => /\ result.kind = "returned"
           /\ LET wanted == RowsOfMonth(companies_df[FirstNamed(result.args[1])].Symbol,
                                        result.args[2], result.args[3])
                  got == result.data
              IN  /\ Len(got) = Cardinality(wanted)
                  /\ {got[k].idx + 1 : k \in DOMAIN got} = wanted
                  /\ \A k \in DOMAIN got : got[k].row = stocks_df.rows[got[k].idx + 1]
                  /\ \A k \in DOMAIN got : \A l \in DOMAIN got :
                        k < l => got[k].idx < got[l].idx

\* two companies with different Symbols share the short name, both have a
\* stock row in the month asked for, and only the first company's row is returned
C11_Witness ==
    /\ result.op = "filter_stock_data"
    /\ result.kind = "returned"
    /\ Len(companies_df) = 2
    /\ companies_df[1].Shortname = result.args[1]
    /\ companies_df[2].Shortname = result.args[1]
    /\ companies_df[1].Symbol # companies_df[2].Symbol
    /\ Len(stocks_df.rows) = 2
    /\ RowsOfMonth(companies_df[1].Symbol, result.args[2], result.args[3]) # {}
    /\ RowsOfMonth(companies_df[2].Symbol, result.args[2], result.args[3]) # {}
    /\ Len(result.data) = 1
    /\ result.data[1].row.Symbol = companies_df[1].Symbol

-----------------------------------------------------------------------------
(* C12 *)

\* the inline message is the validation result of the fields' current contents
LabelIsCurrent(w) ==
    w.year_error_label = validate_years(w.from_year_input, w.to_year_input)

\* a sector window as its constructor leaves it: nothing typed, no message
Untouched(w) ==
    /\ w.from_year_input = <<>>
    /\ w.to_year_input = <<>>
    /\ w.year_error_label = ""

\* C12: in the sector view every edit of either year field re-runs the
\* validation: an edit step leaves the inline message equal to the validation
\* result of the two fields' new contents; no step other than an edit or the
\* opening of a new sector window changes the fields or the message, so an
\* open window that is not as its constructor left it always shows the
\* validation result of its current contents; and an Analyze action on a
\* window whose message is current draws the chart exactly when the message
\* is empty.
C12_LabelFollowsKeystrokes ==
    [][/\ result'.op = "validate_year_input"
            => LabelIsCurrent(sector_performance_window')
       /\ result'.op \notin {"validate_year_input", "open_sector_performance_analysis"}
            => sector_performance_window' = sector_performance_window
       /\ (sector_performance_window'.open /\ ~Untouched(sector_performance_window'))
            => LabelIsCurrent(sector_performance_window')
       /\ (result'.op = "perform_sector_analysis" /\ LabelIsCurrent(sector_performance_window))
            => (result'.kind = "chart"
                    <=> sector_performance_window.year_error_label = "")]_vars

\* an Analyze action has drawn a chart in a window whose fields were typed
\* into and whose message is empty
C12_Witness ==
    /\ result.op = "perform_sector_analysis"
    /\ result.kind = "chart"
    /\ sector_performance_window.open
    /\ sector_performance_window.from_year_input = Text_2014
    /\ sector_performance_window.to_year_input = Text_2015
    /\ sector_performance_window.year_error_label = ""

-----------------------------------------------------------------------------
(* C13 *)

OneCompanyPerSymbol ==
    \A i \in DOMAIN companies_df : \A j \in DOMAIN companies_df :
        companies_df[i].Symbol = companies_df[j].Symbol => i = j

OneStockPerSymbolDate ==
    \A i \in DOMAIN stocks_df.rows : \A j \in DOMAIN stocks_df.rows :
        (/\ stocks_df.rows[i].Symbol = stocks_df.rows[j].Symbol
         /\ stocks_df.rows[i].Date = stocks_df.rows[j].Date) => i = j

\* the year a Date cell is dated in, read off its text or its timestamp
YearOfCell(cell) ==
    IF stocks_df.dtype = "datetime64" THEN cell.year
    ELSE FourDigitValue(SubSeq(cell, 1, 4))

\* the positions of the stock rows dated in a year whose Symbol has a company
RowsOfYearWithCompany(year) ==
    {i \in DOMAIN stocks_df.rows :
        /\ YearOfCell(stocks_df.rows[i].Date) = year
        /\ \E c \in Range(companies_df) : c.Symbol = stocks_df.rows[i].Symbol}

\* C13: with one CompanyRecord per Symbol and one StockRecord per
\* (Symbol, Date), merge_dataframes for a year returns exactly one row per
\* stock row dated in that year whose Symbol has a CompanyRecord, carrying the
\* stock row's Symbol, Date and Close and that company's Sector, Shortname and
\* Revenuegrowth; stock rows without a CompanyRecord and rows of any other
\* year do not appear.
C13_OneRowPerStockRow ==
    (/\ result.op = "merge_dataframes"
     /\ OneCompanyPerSymbol
     /\ OneStockPerSymbolDate)
        => LET got == result.data
               wanted == RowsOfYearWithCompany(result.args[1])
           IN  /\ Len(got) = Cardinality(wanted)
               /\ \A i \in wanted : \E k \in DOMAIN got :
                     /\ got[k].Symbol = stocks_df.rows[i].Symbol
                     /\ got[k].Date = to_datetime(stocks_df.dtype, stocks_df.rows[i].Date)
                     /\ got[k].Close = stocks_df.rows[i].Close
               /\ \A k \in DOMAIN got :
                     /\ got[k].Year = result.args[1]
                     /\ got[k].Date.year = result.args[1]
                     /\ \E c \in Range(companies_df) :
                           /\ c.Symbol = got[k].Symbol
                           /\ c.Sector = got[k].Sector
                           /\ c.Shortname = got[k].Shortname
                           /\ c.Revenuegrowth = got[k].Revenuegrowth
               /\ \A k \in DOMAIN got : \A l \in DOMAIN got :
                     (got[k].Symbol = got[l].Symbol /\ got[k].Date = got[l].Date)
                        => k = l

\* of two stock rows of the year asked for, the one whose Symbol has a company
\* is returned and the one whose Symbol has none is dropped
C13_Witness ==
    /\ result.op = "merge_dataframes"
    /\ OneCompanyPerSymbol
    /\ OneStockPerSymbolDate
    /\ companies_df # <<>>
    /\ Len(stocks_df.rows) = 2
    /\ \A i \in DOMAIN stocks_df.rows :
          YearOfCell(stocks_df.rows[i].Date) = result.args[1]
    /\ \E i \in DOMAIN stocks_df.rows : \A c \in Range(companies_df) :
          c.Symbol # stocks_df.rows[i].Symbol
    /\ Len(result.data) = 1

=============================================================================
